---- MODULE Spec2Model ----
(***************************************************************************)
(* Timelock contract (examples/advanced/02-timelock/src/lib.rs).           *)
(*                                                                         *)
(* The contract keeps one administrator address in instance storage and,   *)
(* per operation identifier, one scheduled execution timestamp in          *)
(* persistent storage.  Every public function is one atomic host           *)
(* invocation: a panic aborts the invocation before any write, so each     *)
(* function is one action.  The ledger clock is an input of the host.      *)
(*                                                                         *)
(* Timestamps are u64 in the source.  The model keeps the modular          *)
(* arithmetic but with a word of TimestampBits bits: a clock near the top  *)
(* of the word stands for a ledger time near u64::MAX, and every delay the *)
(* contract accepts (at most MAX_DELAY) is far smaller than the word.      *)
(***************************************************************************)
EXTENDS Integers, Sequences, FiniteSets, TLC

\* lib.rs:6 and lib.rs:8
MIN_DELAY == 60
MAX_DELAY == 86400

\* Width of the model's timestamp word (u64 in the source).
TimestampBits == 18
U64_MODULUS == 2 ^ TimestampBits
U64_MAX == U64_MODULUS - 1

\* Bounds of the exploration.
MaxTicks == 1
MaxEvents == 3

Ids == {"op1", "op2"}
Principals == {"A", "B"}
\* Delays offered to queue: both sides of both bounds, and the bounds.
Delays == {MIN_DELAY - 1, MIN_DELAY, MAX_DELAY, MAX_DELAY + 1}
\* Amounts by which the ledger clock advances between invocations.
ClockSteps == {MIN_DELAY - 1, MIN_DELAY}
\* Ledger times at which the contract may be deployed.
ClockStarts == {0, U64_MAX - (MIN_DELAY - 1)}

VARIABLES
    admin,            \* instance storage, DataKey::Admin: {} or {address}
    ops,              \* persistent storage, DataKey::Operation(id) -> execute_at
    events,           \* the events published so far, in order
    clock,            \* env.ledger().timestamp()
    last,             \* the step just taken: the call, its inputs and its result
    queued_at,        \* history: the ledger time and delay of the queue call behind each live record
    hist,             \* history: how the latest record of each id ended
    ticks             \* number of clock advances so far

vars == <<admin, ops, events, clock, last, queued_at, hist, ticks>>

store == <<admin, ops, events>>

----------------------------------------------------------------------------
(* Storage helpers: env.storage().{instance,persistent}().{has,get,remove,set} *)

has(key) == key \in DOMAIN ops

\* Option<u64> as a set with at most one element.
get(key) == IF has(key) THEN {ops[key]} ELSE {}

remove(f, key) == [k \in (DOMAIN f) \ {key} |-> f[k]]

set(f, key, value) == [k \in (DOMAIN f) \cup {key} |-> IF k = key THEN value ELSE f[k]]

----------------------------------------------------------------------------
(* `env.ledger().timestamp() + delay` on u64 (lib.rs:68).  The source uses   *)
(* the plain `+`: a build with overflow checks panics when the sum leaves   *)
(* the word, a build without them wraps.  The operator gives the set of     *)
(* outcomes a build can produce; {} stands for the panic, {t} for the       *)
(* value t.                                                                 *)

checked_add(now, delay) ==
    IF now + delay > U64_MAX
    THEN {{}, {(now + delay) % U64_MODULUS}}
    ELSE {{now + delay}}

----------------------------------------------------------------------------
(* The administrator lookup and `admin.require_auth()` that open queue,     *)
(* execute and cancel.  `caller` is the address whose authorization the     *)
(* invocation carries.                                                      *)

\* Variant: the require_auth() call is missing.
admin_gate_no_auth(caller) ==
    IF admin = {} THEN "NotInitialized" ELSE "Ok"

\* Variant: the missing administrator slot is not noticed.
admin_gate_no_init(caller) ==
    IF caller \notin admin THEN "Unauthorized" ELSE "Ok"

admin_gate(caller) ==
    IF admin = {} THEN "NotInitialized"
    ELSE IF caller \notin admin THEN "Unauthorized"
    ELSE "Ok"

\* Variant: the guard against a second initialize is missing.
initialize_result_no_guard == "Ok"

initialize_result ==
    IF admin # {} THEN "AlreadyInitialized" ELSE "Ok"

\* Variant: the upper bound of the delay is not checked.
delay_in_range_no_max(delay) == ~(delay < MIN_DELAY)

\* Variant: the lower bound is exclusive.
delay_in_range_exclusive(delay) == ~(delay <= MIN_DELAY \/ delay > MAX_DELAY)

delay_in_range(delay) == ~(delay < MIN_DELAY \/ delay > MAX_DELAY)

\* Variant: queue does not look for an existing record.
queue_result_no_has(caller, id, delay, sum) ==
    IF admin_gate(caller) # "Ok" THEN admin_gate(caller)
    ELSE IF ~delay_in_range(delay) THEN "DelayOutOfRange"
    ELSE IF sum = {} THEN "Overflow"
    ELSE "Ok"

\* Variant: queue looks for an existing record before it checks the delay.
queue_result_has_first(caller, id, delay, sum) ==
    IF admin_gate(caller) # "Ok" THEN admin_gate(caller)
    ELSE IF has(id) THEN "AlreadyQueued"
    ELSE IF ~delay_in_range(delay) THEN "DelayOutOfRange"
    ELSE IF sum = {} THEN "Overflow"
    ELSE "Ok"

\* `sum` is the outcome of the addition of line 68, were it reached.
queue_result(caller, id, delay, sum) ==
    IF admin_gate(caller) # "Ok" THEN admin_gate(caller)
    ELSE IF ~delay_in_range(delay) THEN "DelayOutOfRange"
    ELSE IF has(id) THEN "AlreadyQueued"
    ELSE IF sum = {} THEN "Overflow"
    ELSE "Ok"

\* Variant: the comparison is the wrong way round.
too_early_inverted(now, execute_at) == now > execute_at

\* Variant: the scheduled time itself is still too early.
too_early_strict(now, execute_at) == now <= execute_at

too_early(now, execute_at) == now < execute_at

execute_result(caller, id) ==
    IF admin_gate(caller) # "Ok" THEN admin_gate(caller)
    ELSE IF ~has(id) THEN "NotFound"
    ELSE IF too_early(clock, ops[id]) THEN "TooEarly"
    ELSE "Ok"

cancel_result(caller, id) ==
    IF admin_gate(caller) # "Ok" THEN admin_gate(caller)
    ELSE IF ~has(id) THEN "NotFound"
    ELSE "Ok"

\* The writes of the three mutating functions (lib.rs:69, 100 and 122).
queue_effect(id, execute_at) == set(ops, id, execute_at)

\* Variant: execute leaves the record in storage.
execute_effect_keep(id) == ops

\* Variant: execute marks the record as done instead of removing it.
execute_effect_tombstone(id) == set(ops, id, 0)

execute_effect(id) == remove(ops, id)

\* Variant: cancel clears every operation record.
cancel_effect_all(id) == [k \in {} |-> 0]

\* Variant: cancel leaves the record in storage.
cancel_effect_keep(id) == ops

cancel_effect(id) == remove(ops, id)

\* The events published by the three mutating functions (lib.rs:71-72,
\* 102-103 and 124-125).  'cancelled' carries the identifier alone.
\* Variant: 'queued' carries the delay instead of the scheduled time.
queued_event_delay(id, execute_at) ==
    [topic |-> "queued", id |-> id, data |-> execute_at - clock]

queued_event(id, execute_at) ==
    [topic |-> "queued", id |-> id, data |-> execute_at]

executed_event(id, now) ==
    [topic |-> "executed", id |-> id, data |-> now]

cancelled_event(id) ==
    [topic |-> "cancelled", id |-> id, data |-> 0]

\* Variant: an absent record reads as the largest timestamp.
get_execute_at_max(id) == IF has(id) THEN ops[id] ELSE U64_MAX

get_execute_at(id) == IF has(id) THEN ops[id] ELSE 0

\* Variant: an absent record named by an 'executed' event reads as Done.
get_state_done(id) ==
    IF ~has(id)
    THEN IF \E i \in 1 .. Len(events) : events[i].topic = "executed" /\ events[i].id = id
         THEN "Done" ELSE "Unknown"
    ELSE IF clock < ops[id] THEN "Pending"
    ELSE "Ready"

get_state(id) ==
    IF ~has(id) THEN "Unknown"
    ELSE IF clock < ops[id] THEN "Pending"
    ELSE "Ready"

----------------------------------------------------------------------------
(* The record kept of the step just taken: the call, its inputs, its       *)
(* result, and the state it started from.                                   *)

Call(fn, caller, id, delay, result, value) ==
    [fn |-> fn, caller |-> caller, id |-> id, delay |-> delay, now |-> clock,
     result |-> result, value |-> value,
     before |-> [admin |-> admin, ops |-> ops, events |-> events],
     was |-> hist, queued |-> queued_at]

Init ==
    /\ admin = {}
    /\ ops = [k \in {} |-> 0]
    /\ events = <<>>
    /\ clock \in ClockStarts
    /\ queued_at = [k \in {} |-> 0]
    /\ hist = [k \in Ids |-> "never"]
    /\ ticks = 0
    /\ last = Call("deploy", "-", "-", 0, "Ok", "-")

Initialize(a) ==
    /\ IF initialize_result = "Ok"
       THEN admin' = {a}
       ELSE UNCHANGED admin
    /\ last' = Call("initialize", a, "-", 0, initialize_result, "-")
    /\ UNCHANGED <<ops, events, clock, queued_at, hist, ticks>>

Queue(caller, id, delay) ==
    \E sum \in checked_add(clock, delay) :
    LET r == queue_result(caller, id, delay, sum) IN
    /\ r = "Ok" => Len(events) < MaxEvents
    /\ IF r = "Ok"
       THEN LET execute_at == CHOOSE t \in sum : TRUE IN
            /\ ops' = queue_effect(id, execute_at)
            /\ events' = Append(events, queued_event(id, execute_at))
            /\ queued_at' = set(queued_at, id, [at |-> clock, delay |-> delay])
            /\ hist' = [hist EXCEPT ![id] = "live"]
       ELSE UNCHANGED <<ops, events, queued_at, hist>>
    /\ last' = Call("queue", caller, id, delay, r, "-")
    /\ UNCHANGED <<admin, clock, ticks>>

\* Variant: execute removes the record before it compares the times, and the
\* removal survives the failure.
Execute_remove_first(caller, id) ==
    LET r == execute_result(caller, id) IN
    /\ r = "Ok" => Len(events) < MaxEvents
    /\ IF r \in {"Ok", "TooEarly"}
       THEN /\ ops' = execute_effect(id)
            /\ queued_at' = remove(queued_at, id)
            /\ hist' = [hist EXCEPT ![id] = "executed"]
       ELSE UNCHANGED <<ops, queued_at, hist>>
    /\ IF r = "Ok"
       THEN events' = Append(events, executed_event(id, clock))
       ELSE UNCHANGED events
    /\ last' = Call("execute", caller, id, 0, r, "-")
    /\ UNCHANGED <<admin, clock, ticks>>

Execute(caller, id) ==
    LET r == execute_result(caller, id) IN
    /\ r = "Ok" => Len(events) < MaxEvents
    /\ IF r = "Ok"
       THEN /\ ops' = execute_effect(id)
            /\ events' = Append(events, executed_event(id, clock))
            /\ queued_at' = remove(queued_at, id)
            /\ hist' = [hist EXCEPT ![id] = "executed"]
       ELSE UNCHANGED <<ops, events, queued_at, hist>>
    /\ last' = Call("execute", caller, id, 0, r, "-")
    /\ UNCHANGED <<admin, clock, ticks>>

Cancel(caller, id) ==
    LET r == cancel_result(caller, id) IN
    /\ r = "Ok" => Len(events) < MaxEvents
    /\ IF r = "Ok"
       THEN /\ ops' = cancel_effect(id)
            /\ events' = Append(events, cancelled_event(id))
            /\ queued_at' = remove(queued_at, id)
            /\ hist' = [hist EXCEPT ![id] = "cancelled"]
       ELSE UNCHANGED <<ops, events, queued_at, hist>>
    /\ last' = Call("cancel", caller, id, 0, r, "-")
    /\ UNCHANGED <<admin, clock, ticks>>

GetExecuteAt(id) ==
    /\ last' = Call("get_execute_at", "-", id, 0, "Ok", get_execute_at(id))
    /\ UNCHANGED <<admin, ops, events, clock, queued_at, hist, ticks>>

\* Variant: the query looks up the administrator first, like the mutating
\* functions.
GetState_gated(id) ==
    /\ last' = Call("get_state", "-", id, 0,
                    IF admin = {} THEN "NotInitialized" ELSE "Ok", get_state(id))
    /\ UNCHANGED <<admin, ops, events, clock, queued_at, hist, ticks>>

GetState(id) ==
    /\ last' = Call("get_state", "-", id, 0, "Ok", get_state(id))
    /\ UNCHANGED <<admin, ops, events, clock, queued_at, hist, ticks>>

\* The ledger closes: the host's clock moves forward; it never wraps.
AdvanceClock(step) ==
    /\ ticks < MaxTicks
    /\ clock + step <= U64_MAX
    /\ clock' = clock + step
    /\ ticks' = ticks + 1
    /\ last' = Call("advance", "-", "-", 0, "Ok", "-")
    /\ UNCHANGED <<admin, ops, events, queued_at, hist>>

Next ==
    \/ \E a \in Principals : Initialize(a)
    \/ \E c \in Principals, id \in Ids, d \in Delays : Queue(c, id, d)
    \/ \E c \in Principals, id \in Ids : Execute(c, id)
    \/ \E c \in Principals, id \in Ids : Cancel(c, id)
    \/ \E id \in Ids : GetExecuteAt(id)
    \/ \E id \in Ids : GetState(id)
    \/ \E s \in ClockSteps : AdvanceClock(s)

Spec == Init /\ [][Next]_vars

----------------------------------------------------------------------------
(* Reading the record of the step just taken.                               *)

\* The scheduled time stored for the call's identifier when the call began.
PreAt == IF last.id \in DOMAIN last.before.ops THEN {last.before.ops[last.id]} ELSE {}

\* The queue call behind that record.
PreQueued == IF last.id \in DOMAIN last.queued THEN {last.queued[last.id]} ELSE {}

\* The call carried the administrator's authorization.
ByAdmin == last.caller \in last.before.admin

Mutating == last.fn \in {"queue", "execute", "cancel"}

\* Administrator, records and event log are as they were when the call began.
StoreUntouched ==
    /\ admin = last.before.admin
    /\ ops = last.before.ops
    /\ events = last.before.events

ValidDelay(d) == MIN_DELAY <= d /\ d <= MAX_DELAY

\* The events of one identifier, in order.
EventsOf(id) == SelectSeq(events, LAMBDA e : e.id = id)

----------------------------------------------------------------------------
\* C1: a call execute(id) succeeds only if the ledger time it reads is at or
\* after the scheduled time stored for id; no run of calls and clock advances
\* executes an operation before its scheduled time.
C1_NeverBeforeScheduledTime ==
    (last.fn = "execute" /\ last.result = "Ok")
        => /\ PreAt # {}
           /\ \A t \in PreAt : last.now >= t

\* C1 witness: an execute that succeeded exactly at the scheduled time, after
\* the clock moved there.
C1_Witness ==
    /\ last.fn = "execute" /\ last.result = "Ok"
    /\ PreAt = {last.now}
    /\ \E q \in PreQueued : q.at < last.now

\* C2: every successful execute(id) happens at least MIN_DELAY seconds, and at
\* least the queue call's own delay, after the ledger time of the queue call
\* that created the executed record.
C2_MinDelayElapsed ==
    (last.fn = "execute" /\ last.result = "Ok")
        => \A q \in PreQueued :
              /\ last.now >= q.at + MIN_DELAY
              /\ last.now >= q.at + q.delay

\* C3: for a record of id with scheduled time t, execute(id) by the
\* administrator at a time >= t succeeds and removes the record; every later
\* execute(id) by the administrator, with no queue of id in between, fails
\* with NotFound; in the event log every 'executed' of id directly follows
\* the 'queued' of id it resolves, so no queued instance is executed twice.
C3_ExactlyOnce ==
    /\ (last.fn = "execute" /\ ByAdmin /\ \E t \in PreAt : last.now >= t)
          => (last.result = "Ok" /\ ~has(last.id))
    /\ (last.fn = "execute" /\ ByAdmin /\ last.was[last.id] = "executed")
          => (last.result = "NotFound" /\ StoreUntouched)
    /\ \A id \in Ids : \A i \in 1..Len(EventsOf(id)) :
          EventsOf(id)[i].topic = "executed"
              => (i > 1 /\ EventsOf(id)[i - 1].topic = "queued")

\* C3 witness: a replayed execute, refused with NotFound.
C3_Witness ==
    /\ last.fn = "execute" /\ ByAdmin
    /\ last.was[last.id] = "executed"
    /\ last.result = "NotFound"

\* C4: for a record of id with scheduled time t, execute(id) by the
\* administrator at a time < t fails with TooEarly and leaves the record as it
\* was (same scheduled time, get_state(id) still Pending), and publishes no
\* event.
C4_EarlyExecuteRejected ==
    (last.fn = "execute" /\ ByAdmin /\ \E t \in PreAt : last.now < t)
        => /\ last.result = "TooEarly"
           /\ StoreUntouched
           /\ get(last.id) = PreAt
           /\ get_state(last.id) = "Pending"

\* C4 witness: an execute one second before the scheduled time.
C4_Witness ==
    /\ last.fn = "execute" /\ last.result = "TooEarly"
    /\ PreAt = {last.now + 1}

\* C5 as stated: every queue, execute or cancel that does not carry the
\* administrator's authorization fails with Unauthorized and mutates nothing,
\* in every reachable state.
C5_UnauthorizedAlways ==
    (Mutating /\ ~ByAdmin) => (last.result = "Unauthorized" /\ StoreUntouched)

\* C5 amended: every queue, execute or cancel that does not carry the
\* administrator's authorization mutates nothing; it fails with Unauthorized
\* once the contract is initialized and with NotInitialized before that.
C5_AuthorizationGate ==
    (Mutating /\ ~ByAdmin)
        => /\ StoreUntouched
           /\ last.result = IF last.before.admin = {} THEN "NotInitialized"
                            ELSE "Unauthorized"

\* C5 witness: another principal tries to cancel a live record.
C5_Witness ==
    /\ last.fn = "cancel" /\ ~ByAdmin
    /\ last.result = "Unauthorized"
    /\ PreAt # {}

\* C6: for every delay below MIN_DELAY or above MAX_DELAY, queue(id, delay)
\* by the administrator fails with DelayOutOfRange and leaves the storage as
\* it was: no record created, none altered, no event.
C6_DelayBounds ==
    (last.fn = "queue" /\ ByAdmin /\ ~ValidDelay(last.delay))
        => (last.result = "DelayOutOfRange" /\ StoreUntouched)

\* C6 witness: a delay one second above MAX_DELAY, refused.
C6_Witness ==
    /\ last.fn = "queue" /\ ByAdmin
    /\ last.delay = MAX_DELAY + 1
    /\ last.result = "DelayOutOfRange"

\* C7: while a record exists for id, every queue(id, d') by the administrator
\* with d' in the accepted range fails with AlreadyQueued and leaves the
\* record's scheduled time as it was.
C7_NoDoubleQueue ==
    (last.fn = "queue" /\ ByAdmin /\ ValidDelay(last.delay) /\ PreAt # {})
        => /\ last.result = "AlreadyQueued"
           /\ StoreUntouched
           /\ get(last.id) = PreAt

\* C7 witness: a second queue of a live identifier with another delay.
C7_Witness ==
    /\ last.fn = "queue" /\ last.result = "AlreadyQueued"
    /\ \E q \in PreQueued : q.delay # last.delay

\* C8: for a record of id with scheduled time t, get_state(id) is Pending at
\* every ledger time < t and Ready at every ledger time >= t; in particular it
\* is Pending right after a successful queue, at the same ledger time.
C8_MonotonicReadiness ==
    /\ \A id \in DOMAIN ops :
          get_state(id) = IF clock < ops[id] THEN "Pending" ELSE "Ready"
    /\ (last.fn = "queue" /\ last.result = "Ok")
          => get_state(last.id) = "Pending"

\* C9: cancel(id) by the administrator on a live record, Pending or Ready,
\* removes it and get_state(id) is then Unknown; a later queue(id, d) by the
\* administrator with a valid delay is treated as for a fresh identifier: it
\* is never refused as AlreadyQueued, it succeeds whenever now + d fits the
\* timestamp word, and the scheduled time it stores comes from that call's
\* ledger time and delay alone.
C9_CancelRemovesCleanly ==
    /\ (last.fn = "cancel" /\ ByAdmin /\ PreAt # {})
          => /\ last.result = "Ok"
             /\ ~has(last.id)
             /\ get_state(last.id) = "Unknown"
             /\ get_execute_at(last.id) = 0
    /\ (last.fn = "queue" /\ ByAdmin /\ ValidDelay(last.delay)
            /\ last.was[last.id] = "cancelled")
          => /\ last.result \in {"Ok", "Overflow"}
             /\ last.now + last.delay <= U64_MAX => last.result = "Ok"
             /\ last.result = "Ok"
                   => get(last.id) = {(last.now + last.delay) % U64_MODULUS}

\* C9 witness: an identifier queued, cancelled, and queued again with another
\* delay.
C9_Witness ==
    /\ last.fn = "queue" /\ last.result = "Ok"
    /\ last.was[last.id] = "cancelled"
    /\ \E i \in 1..Len(events) :
          /\ events[i].topic = "queued" /\ events[i].id = last.id
          /\ events[i].data # ops[last.id]

\* C10: the first initialize(admin) succeeds and writes the administrator
\* slot; every later initialize(admin') fails with AlreadyInitialized; once
\* the slot is populated no step changes it.
C10_AdminSetOnce ==
    /\ (last.fn = "initialize" /\ last.before.admin = {})
          => (last.result = "Ok" /\ admin = {last.caller})
    /\ (last.fn = "initialize" /\ last.before.admin # {})
          => (last.result = "AlreadyInitialized" /\ StoreUntouched)
    /\ last.before.admin # {} => admin = last.before.admin

\* C10 witness: a second initialize, naming another address, refused.
C10_Witness ==
    /\ last.fn = "initialize" /\ last.result = "AlreadyInitialized"
    /\ last.caller \notin admin

----------------------------------------------------------------------------
\* C11: before initialize has succeeded, every queue, execute or cancel fails
\* with NotInitialized, whatever its arguments and authorization, and creates
\* no record and publishes no event.
C11_NotInitialized ==
    (Mutating /\ last.before.admin = {})
        => (last.result = "NotInitialized" /\ StoreUntouched)

\* C11 witness: a queue with a valid delay on a contract never initialized.
C11_Witness ==
    /\ last.fn = "queue" /\ ValidDelay(last.delay)
    /\ last.before.admin = {}
    /\ last.result = "NotInitialized"

\* C12: queue never stores a wrapped scheduled time: when now + delay exceeds
\* the largest timestamp the call is rejected, writing no record and
\* publishing no event.
C12_OverflowRejected ==
    (last.fn = "queue" /\ last.now + last.delay > U64_MAX)
        => (last.result # "Ok" /\ StoreUntouched)

\* C13 as stated: on an initialized contract, queue(id, delay) by the
\* administrator with no live record of id and MIN_DELAY <= delay <= MAX_DELAY
\* succeeds and stores now + delay, which get_execute_at(id) then returns.
C13_QueueAlwaysStoresSum ==
    (last.fn = "queue" /\ ByAdmin /\ PreAt = {} /\ ValidDelay(last.delay))
        => /\ last.result = "Ok"
           /\ get(last.id) = {last.now + last.delay}
           /\ get_execute_at(last.id) = last.now + last.delay

\* C13 amended: the same, for the calls whose now + delay does not exceed the
\* largest timestamp.
C13_QueueEffect ==
    (last.fn = "queue" /\ ByAdmin /\ PreAt = {} /\ ValidDelay(last.delay)
        /\ last.now + last.delay <= U64_MAX)
        => /\ last.result = "Ok"
           /\ get(last.id) = {last.now + last.delay}
           /\ get_execute_at(last.id) = last.now + last.delay

\* C13 witness: a queue with the smallest accepted delay, after the clock has
\* moved, storing the sum.
C13_Witness ==
    /\ last.fn = "queue" /\ last.result = "Ok"
    /\ last.delay = MIN_DELAY
    /\ last.now > 0
    /\ get_execute_at(last.id) = last.now + MIN_DELAY

----------------------------------------------------------------------------
\* C14: for every identifier and every step (a call or a clock advance), a
\* record that exists before and after the step has the same scheduled time;
\* execute and cancel add no record, they only remove.
C14_ScheduledTimeNeverMutated ==
    /\ \A id \in (DOMAIN ops) \cap (DOMAIN last.before.ops) :
          ops[id] = last.before.ops[id]
    /\ last.fn \in {"execute", "cancel"}
          => (DOMAIN ops) \subseteq (DOMAIN last.before.ops)

\* C14 witness: the administrator queues a live identifier again, at a later
\* ledger time, so that the sum differs from the stored time.
C14_Witness ==
    /\ last.fn = "queue" /\ ByAdmin /\ ValidDelay(last.delay)
    /\ PreAt # {}
    /\ last.id \in DOMAIN ops
    /\ last.now + last.delay # ops[last.id]
    /\ \E q \in PreQueued : q.at < last.now

\* C15: every initialize, queue, execute or cancel that fails leaves the
\* administrator slot, every record and the event log as they were.
C15_FailureAtomicity ==
    (last.fn \in {"initialize", "queue", "execute", "cancel"} /\ last.result # "Ok")
        => StoreUntouched

\* C15 witness: a cancel of an absent identifier while another record is live
\* and the log is not empty.
C15_Witness ==
    /\ last.fn = "cancel" /\ last.result = "NotFound"
    /\ DOMAIN ops # {}
    /\ events # <<>>

\* C16: a successful queue appends exactly one 'queued' event carrying the
\* identifier and the stored scheduled time, a successful execute exactly one
\* 'executed' event carrying the identifier and the ledger time, a successful
\* cancel exactly one 'cancelled' event carrying the identifier; no other
\* step appends anything.
C16_Notifications ==
    /\ (last.fn = "queue" /\ last.result = "Ok")
          => /\ last.id \in DOMAIN ops
             /\ events = Append(last.before.events,
                    [topic |-> "queued", id |-> last.id, data |-> ops[last.id]])
    /\ (last.fn = "execute" /\ last.result = "Ok")
          => events = Append(last.before.events,
                    [topic |-> "executed", id |-> last.id, data |-> last.now])
    /\ (last.fn = "cancel" /\ last.result = "Ok")
          => events = Append(last.before.events,
                    [topic |-> "cancelled", id |-> last.id, data |-> 0])
    /\ ~(Mutating /\ last.result = "Ok") => events = last.before.events

\* C16 witness: a queue at a ledger time other than 0, whose event carries
\* the scheduled time and not the delay.
C16_Witness ==
    /\ last.fn = "queue" /\ last.result = "Ok"
    /\ events[Len(events)].data = last.now + last.delay
    /\ last.now > 0

\* The scheduled time carried by the latest 'queued' event of id.
LastQueuedTime(id) ==
    LET q == SelectSeq(events, LAMBDA e : e.id = id /\ e.topic = "queued")
    IN  q[Len(q)].data

\* C17: get_execute_at(id) returns the scheduled time of the live record of
\* id (the one its latest 'queued' event announced), and 0 when id has no
\* record: never queued, executed, or cancelled.
C17_GetExecuteAt ==
    last.fn = "get_execute_at"
        => /\ last.was[last.id] = "live"
                => (has(last.id) /\ last.value = LastQueuedTime(last.id))
           /\ last.was[last.id] \in {"never", "executed", "cancelled"}
                => (~has(last.id) /\ last.value = 0)

\* C17 witness: the query on an identifier that was executed.
C17_Witness ==
    /\ last.fn = "get_execute_at"
    /\ last.was[last.id] = "executed"
    /\ last.value = 0

\* C18: get_state and get_execute_at succeed without any authorization, also
\* before initialize, and leave administrator, records and log unchanged.
C18_QueriesPure ==
    last.fn \in {"get_state", "get_execute_at"}
        => (last.result = "Ok" /\ StoreUntouched)

\* C18 witness: get_state on a contract never initialized.
C18_Witness ==
    /\ last.fn = "get_state"
    /\ admin = {}
    /\ last.result = "Ok" /\ last.value = "Unknown"

----------------------------------------------------------------------------
RecordIn(f, key) == IF key \in DOMAIN f THEN {f[key]} ELSE {}

\* Every call on identifier b would give the same result, and leave the same
\* record of b, after this step as before it.  The results read the
\* administrator slot, the records and the clock only, so a step that leaves
\* all three as they were needs no comparison.
SameOutcomesOn(b) ==
    \/ <<admin, ops, clock>>' = <<admin, ops, clock>>
    \/ /\ \A c \in Principals :
             /\ execute_result(c, b)' = execute_result(c, b)
             /\ cancel_result(c, b)' = cancel_result(c, b)
             /\ \A d \in Delays : \A sum \in checked_add(clock, d) :
                   /\ queue_result(c, b, d, sum)' = queue_result(c, b, d, sum)
                   /\ \A t \in sum :
                         RecordIn(queue_effect(b, t)', b) = RecordIn(queue_effect(b, t), b)
       /\ RecordIn(execute_effect(b)', b) = RecordIn(execute_effect(b), b)
       /\ RecordIn(cancel_effect(b)', b) = RecordIn(cancel_effect(b), b)

\* C20: a queue, execute or cancel on identifier A never changes the presence
\* or the scheduled time of the record of another identifier B, and leaves
\* the result and the effect of every call on B as they were; so two calls on
\* different identifiers at one ledger time give the same results and the
\* same records in either order.
C20_IdentifiersIndependent ==
    [][ (Mutating /\ last.id \in Ids)'
            => \A b \in Ids \ {last'.id} :
                  get(b)' = get(b) /\ SameOutcomesOn(b) ]_vars

\* C20 witness: a successful call on one identifier while the other has a
\* live record.
C20_Witness ==
    /\ Mutating /\ last.result = "Ok"
    /\ \E b \in Ids \ {last.id} : has(b) /\ b \in DOMAIN last.before.ops

----------------------------------------------------------------------------
(***************************************************************************)
(* Error-handling contract (examples/basics/05-error-handling/src/lib.rs). *)
(*                                                                         *)
(* The contract keeps no state: hello and guarded_ratio are pure functions *)
(* of their arguments.  Result<T, E> is a record of two options, each a    *)
(* set with at most one element.  u32 is a word of U32Bits bits; the       *)
(* limit of validate_limit (10) and its double fit in the word, and the    *)
(* upper half of the word overflows under checked_mul(2) as in the source. *)
(***************************************************************************)

\* Width of the model's u32 word.
U32Bits == 5
U32_MAX == 2 ^ U32Bits - 1
U32 == 0 .. U32_MAX

Ok(v) == [ok |-> {v}, err |-> {}]
Err(e) == [ok |-> {}, err |-> {e}]
Only(S) == CHOOSE x \in S : TRUE

\* impl From<ValidationError> for Error
from_ValidationError(value) ==
    CASE value = "ZeroCount" -> "InvalidInput"
      [] value = "TooLarge" -> "LimitExceeded"

\* impl From<MathError> for Error
from_MathError(value) ==
    CASE value = "Overflow" -> "MathOverflow"
      [] value = "ZeroDivisor" -> "DivisionByZero"

\* Variant: the upper limit is not checked.
validate_limit_no_max(count) ==
    IF count = 0 THEN Err("ZeroCount")
    ELSE Ok(count)

\* Variant: the limit itself is refused.
validate_limit_exclusive(count) ==
    IF count = 0 THEN Err("ZeroCount")
    ELSE IF count >= 10 THEN Err("TooLarge")
    ELSE Ok(count)

validate_limit(count) ==
    IF count = 0 THEN Err("ZeroCount")
    ELSE IF count > 10 THEN Err("TooLarge")
    ELSE Ok(count)

\* Variant: the value is raised by two instead of doubled.
scale_by_two_added(value) ==
    IF value + 2 > U32_MAX THEN Err("Overflow") ELSE Ok(value + 2)

\* value.checked_mul(2).ok_or(MathError::Overflow)
scale_by_two(value) ==
    IF value * 2 > U32_MAX THEN Err("Overflow") ELSE Ok(value * 2)

safe_divide(numerator, denominator) ==
    IF denominator = 0 THEN Err("ZeroDivisor")
    ELSE Ok(numerator \div denominator)

ensure_admin(caller, adm) ==
    IF caller # adm THEN Err("Unauthorized") ELSE Ok("unit")

compute_greeting_score(count) ==
    LET validated == validate_limit(count) IN
    IF validated.err # {} THEN Err(from_ValidationError(Only(validated.err)))
    ELSE LET doubled == scale_by_two(Only(validated.ok)) IN
         IF doubled.err # {} THEN Err(from_MathError(Only(doubled.err)))
         ELSE Ok(Only(doubled.ok))

hello(count) ==
    LET score == compute_greeting_score(count) IN
    IF score.err # {} THEN Err(Only(score.err))
    ELSE Ok("Hello")

\* Variant: the caller is compared with the administrator after validation
\* and arithmetic.
guarded_ratio_auth_last(caller, adm, numerator, denominator) ==
    LET checked_numerator == validate_limit(numerator) IN
    IF checked_numerator.err # {}
    THEN Err(from_ValidationError(Only(checked_numerator.err)))
    ELSE LET scaled == scale_by_two(Only(checked_numerator.ok)) IN
         IF scaled.err # {} THEN Err(from_MathError(Only(scaled.err)))
         ELSE LET ratio == safe_divide(Only(scaled.ok), denominator) IN
              IF ratio.err # {} THEN Err(from_MathError(Only(ratio.err)))
              ELSE IF ensure_admin(caller, adm).err # {}
              THEN Err(Only(ensure_admin(caller, adm).err))
              ELSE Ok(Only(ratio.ok))

guarded_ratio(caller, adm, numerator, denominator) ==
    IF ensure_admin(caller, adm).err # {}
    THEN Err(Only(ensure_admin(caller, adm).err))
    ELSE LET checked_numerator == validate_limit(numerator) IN
         IF checked_numerator.err # {}
         THEN Err(from_ValidationError(Only(checked_numerator.err)))
         ELSE LET scaled == scale_by_two(Only(checked_numerator.ok)) IN
              IF scaled.err # {} THEN Err(from_MathError(Only(scaled.err)))
              ELSE LET ratio == safe_divide(Only(scaled.ok), denominator) IN
                   IF ratio.err # {} THEN Err(from_MathError(Only(ratio.err)))
                   ELSE Ok(Only(ratio.ok))

\* The record of one invocation of the error-handling contract: the function,
\* its arguments and, once it has returned, its result.
Invoke(fn, caller, adm, numerator, denominator, result) ==
    [fn |-> fn, caller |-> caller, adm |-> adm, numerator |-> numerator,
     denominator |-> denominator, result |-> result]

\* The invocation has not returned yet.
NoResult == [ok |-> {}, err |-> {}]

Returned == last.result # NoResult

\* A client submits one invocation with arguments of its choice.  The
\* timelock's variables play no part and stay as they start.
ErrorHandlingInit ==
    /\ admin = {}
    /\ ops = [k \in {} |-> 0]
    /\ events = <<>>
    /\ clock = 0
    /\ queued_at = [k \in {} |-> 0]
    /\ hist = [k \in Ids |-> "never"]
    /\ ticks = 0
    /\ \/ \E count \in U32 : last = Invoke("hello", "-", "-", count, 0, NoResult)
       \/ \E caller \in Principals, adm \in Principals,
             numerator \in U32, denominator \in U32 :
               last = Invoke("guarded_ratio", caller, adm, numerator, denominator, NoResult)

Hello ==
    /\ last.fn = "hello" /\ ~Returned
    /\ last' = [last EXCEPT !.result = hello(last.numerator)]
    /\ UNCHANGED <<admin, ops, events, clock, queued_at, hist, ticks>>

GuardedRatio ==
    /\ last.fn = "guarded_ratio" /\ ~Returned
    /\ last' = [last EXCEPT !.result =
                    guarded_ratio(last.caller, last.adm, last.numerator, last.denominator)]
    /\ UNCHANGED <<admin, ops, events, clock, queued_at, hist, ticks>>

ErrorHandlingNext == Hello \/ GuardedRatio

ErrorHandlingSpec == ErrorHandlingInit /\ [][ErrorHandlingNext]_vars

\* C21: for every u32 count, hello(count) returns Ok("Hello") exactly when
\* 1 <= count <= 10, Err(InvalidInput) when count = 0 and Err(LimitExceeded)
\* when count > 10.
C21_Hello ==
    (last.fn = "hello" /\ Returned)
        => /\ (last.result = Ok("Hello")) <=> (1 <= last.numerator /\ last.numerator <= 10)
           /\ last.numerator = 0 => last.result = Err("InvalidInput")
           /\ last.numerator > 10 => last.result = Err("LimitExceeded")

\* C21 witness: hello at the limit itself.
C21_Witness ==
    last.fn = "hello" /\ last.numerator = 10 /\ last.result = Ok("Hello")

\* C22: guarded_ratio returns Err(Unauthorized) whenever caller differs from
\* admin, whatever the numerator and the denominator are.
C22_UnauthorizedFirst ==
    (last.fn = "guarded_ratio" /\ Returned /\ last.caller # last.adm)
        => last.result = Err("Unauthorized")

\* C22 witness: a foreign caller with a numerator past the limit and a zero
\* denominator.
C22_Witness ==
    /\ last.fn = "guarded_ratio" /\ last.caller # last.adm
    /\ last.numerator > 10 /\ last.denominator = 0
    /\ last.result = Err("Unauthorized")

\* C23: for caller = admin, guarded_ratio returns Err(InvalidInput) when the
\* numerator is 0 and Err(LimitExceeded) when it is above 10, whatever the
\* denominator; for 1 <= numerator <= 10 it returns Err(DivisionByZero) when
\* the denominator is 0 and Ok(floor(2 * numerator / denominator)) otherwise.
C23_GuardedRatio ==
    (last.fn = "guarded_ratio" /\ Returned /\ last.caller = last.adm)
        => /\ last.numerator = 0 => last.result = Err("InvalidInput")
           /\ last.numerator > 10 => last.result = Err("LimitExceeded")
           /\ (1 <= last.numerator /\ last.numerator <= 10)
                => IF last.denominator = 0
                   THEN last.result = Err("DivisionByZero")
                   ELSE last.result = Ok((2 * last.numerator) \div last.denominator)

\* C23 witness: the administrator's call with 6 and 3 (an exact quotient) or
\* with 7 and 2 (a rounded one).
C23_Witness ==
    /\ last.fn = "guarded_ratio" /\ last.caller = last.adm
    /\ \/ last.numerator = 6 /\ last.denominator = 3 /\ last.result = Ok(4)
       \/ last.numerator = 7 /\ last.denominator = 2 /\ last.result = Ok(7)

----------------------------------------------------------------------------
(***************************************************************************)
(* The timelock's successful mutating calls, statement by statement.       *)
(*                                                                         *)
(* Once its checks have passed, queue, execute and cancel each run two     *)
(* host calls in program order: the storage write (lib.rs:69, 100, 122)    *)
(* and the event publication (lib.rs:71-72, 102-103, 124-125).  This       *)
(* specification takes one step per host call, so the state between the    *)
(* two is visible.  No other invocation starts while one is in progress.   *)
(***************************************************************************)

\* Variant: the event is published before the storage is written.
statements_publish_first(fn) == <<"publish", "write">>

\* The host calls of a successful call, in program order.
statements(fn) == <<"write", "publish">>

InFlight == last.result = "InFlight"

\* One host call of function fn on identifier id; execute_at is the value
\* computed at line 68 (queue only).
HostCall(which, fn, id, delay, execute_at, now) ==
    IF which = "write"
    THEN /\ ops' = CASE fn = "queue" -> queue_effect(id, execute_at)
                     [] fn = "execute" -> execute_effect(id)
                     [] fn = "cancel" -> cancel_effect(id)
         /\ queued_at' = IF fn = "queue"
                         THEN set(queued_at, id, [at |-> now, delay |-> delay])
                         ELSE remove(queued_at, id)
         /\ hist' = [hist EXCEPT ![id] = CASE fn = "queue" -> "live"
                                            [] fn = "execute" -> "executed"
                                            [] fn = "cancel" -> "cancelled"]
         /\ UNCHANGED events
    ELSE /\ events' = Append(events, CASE fn = "queue" -> queued_event(id, execute_at)
                                       [] fn = "execute" -> executed_event(id, now)
                                       [] fn = "cancel" -> cancelled_event(id))
         /\ UNCHANGED <<ops, queued_at, hist>>

\* The checks of the call pass and its first host call runs.
Enter(fn, caller, id, delay) ==
    \E sum \in checked_add(clock, delay) :
    LET r == CASE fn = "queue" -> queue_result(caller, id, delay, sum)
               [] fn = "execute" -> execute_result(caller, id)
               [] fn = "cancel" -> cancel_result(caller, id)
        execute_at == IF sum = {} THEN 0 ELSE CHOOSE t \in sum : TRUE
    IN  /\ ~InFlight
        /\ r = "Ok"
        /\ Len(events) < MaxEvents
        /\ HostCall(statements(fn)[1], fn, id, delay, execute_at, clock)
        /\ last' = Call(fn, caller, id, delay, "InFlight", execute_at)
        /\ UNCHANGED <<admin, clock, ticks>>

\* The second host call runs and the call returns.
Return ==
    /\ InFlight
    /\ HostCall(statements(last.fn)[2], last.fn, last.id, last.delay, last.value, last.now)
    /\ last' = [last EXCEPT !.result = "Ok"]
    /\ UNCHANGED <<admin, clock, ticks>>

StatementNext ==
    \/ ~InFlight /\ \E a \in Principals : Initialize(a)
    \/ \E c \in Principals, id \in Ids, d \in Delays : Enter("queue", c, id, d)
    \/ \E c \in Principals, id \in Ids : Enter("execute", c, id, 0)
    \/ \E c \in Principals, id \in Ids : Enter("cancel", c, id, 0)
    \/ Return
    \/ ~InFlight /\ \E s \in ClockSteps : AdvanceClock(s)

StatementSpec == Init /\ [][StatementNext]_vars

\* The store already shows the transition that event e reports.
Reflects(e) ==
    IF e.topic = "queued"
    THEN has(e.id) /\ ops[e.id] = e.data
    ELSE ~has(e.id)

\* C24: within every successful mutating call the store is updated before the
\* notification is appended: whenever an event is appended, the store read at
\* that moment already holds the queued record with the published time, or
\* no longer holds the executed or cancelled record.
C24_MutationBeforeNotification ==
    [][ events' # events => Reflects(events'[Len(events')]) ]_vars

\* C24 witness: inside an execute, the record is removed and the 'executed'
\* event is not yet published.
C24_Witness ==
    /\ InFlight /\ last.fn = "execute"
    /\ ~has(last.id)
    /\ events = last.before.events

----------------------------------------------------------------------------
\* What get_state(id) returned when the step just taken began.
StateBefore(id) ==
    IF id \notin DOMAIN last.before.ops THEN "Unknown"
    ELSE IF last.now < last.before.ops[id] THEN "Pending"
    ELSE "Ready"

\* The step just taken is a successful call of one of fns on id.
Succeeded(fns, id) == last.fn \in fns /\ last.result = "Ok" /\ last.id = id

\* C25: get_state(id) changes only from Unknown to Pending (by a successful
\* queue), from Pending to Ready (by the clock), from Pending to Unknown (by
\* a successful cancel) and from Ready to Unknown (by a successful execute or
\* cancel); never from Unknown to Ready or from Ready to Pending, and an
\* execute never moves an operation out of Pending.
C25_Lifecycle ==
    \A id \in Ids :
        LET pre == StateBefore(id)
            post == get_state(id)
        IN  \/ pre = post
            \/ pre = "Unknown" /\ post = "Pending" /\ Succeeded({"queue"}, id)
            \/ pre = "Pending" /\ post = "Ready" /\ last.fn = "advance"
            \/ pre = "Pending" /\ post = "Unknown" /\ Succeeded({"cancel"}, id)
            \/ pre = "Ready" /\ post = "Unknown" /\ Succeeded({"execute", "cancel"}, id)

\* An 'executed' event of id has been published.
ExecutedBefore(id) ==
    \E i \in 1 .. Len(events) : events[i].topic = "executed" /\ events[i].id = id

OperationStates == {"Unknown", "Pending", "Ready", "Done"}

C28_ErrorPrecedence ==
    Mutating
      => /\ last.before.admin = {} => last.result = "NotInitialized"
         /\ (last.before.admin # {} /\ ~ByAdmin) => last.result = "Unauthorized"
         /\ (last.fn = "queue" /\ ByAdmin /\ ~ValidDelay(last.delay))
               => last.result = "DelayOutOfRange"

\* C28 witness: the administrator queues an identifier that has a live record
\* with a delay below the minimum.
C28_Witness ==
    /\ last.fn = "queue" /\ ByAdmin
    /\ PreAt # {}
    /\ ~ValidDelay(last.delay)
    /\ last.result = "DelayOutOfRange"

\* The number of events of id whose topic is one of topics.
CountOf(id, topics) == Len(SelectSeq(EventsOf(id), LAMBDA e : e.topic \in topics))

\* C29: for every identifier the events alternate, starting with 'queued' and
\* each 'queued' followed by one 'executed' or 'cancelled'; the number of
\* 'queued' events minus the number of 'executed' and 'cancelled' events is 0
\* or 1, and it is 1 exactly when the identifier has a live record, whose
\* scheduled time is the one the last 'queued' event carries.
C29_LogMatchesStore ==
    \A id \in Ids :
        LET E == EventsOf(id)
            open == CountOf(id, {"queued"}) - CountOf(id, {"executed", "cancelled"})
        IN  /\ \A i \in 1 .. Len(E) :
                  IF i % 2 = 1 THEN E[i].topic = "queued"
                  ELSE E[i].topic \in {"executed", "cancelled"}
            /\ open \in {0, 1}
            /\ open = 1 <=> has(id)
            /\ has(id) => (E # <<>> /\ E[Len(E)] = queued_event(id, ops[id]))

\* C29 witness: an identifier queued, cancelled and queued again for a
\* different time.
C29_Witness ==
    \E id \in Ids :
        /\ Len(EventsOf(id)) = 3
        /\ has(id)
        /\ EventsOf(id)[1].data # EventsOf(id)[3].data
        /\ ops[id] = EventsOf(id)[3].data

----------------------------------------------------------------------------
(* The timelock over long waits: the clock also advances by the longest     *)
(* delay at once, so that a record can be watched for MAX_DELAY seconds.    *)

LongSteps == {MIN_DELAY, MAX_DELAY}

LongWaitNext ==
    \/ \E a \in Principals : Initialize(a)
    \/ \E c \in Principals, id \in Ids, d \in Delays : Queue(c, id, d)
    \/ \E c \in Principals, id \in Ids : Execute(c, id)
    \/ \E c \in Principals, id \in Ids : Cancel(c, id)
    \/ \E s \in LongSteps : AdvanceClock(s)

LongWaitSpec == Init /\ [][LongWaitNext]_vars

\* The addition of line 68 behind the live record of id did not overflow.
NoOverflow(id) == queued_at[id].at + queued_at[id].delay <= U64_MAX

\* C30: while the clock does not decrease, every live record whose scheduled
\* time was computed without overflow satisfies
\* MIN_DELAY <= execute_at <= now() + MAX_DELAY; it is scheduled at most
\* MAX_DELAY after its queue call, so it is Ready once MAX_DELAY seconds have
\* passed since then.
C30_BoundedSchedule ==
    \A id \in Ids :
        (has(id) /\ NoOverflow(id))
           => /\ MIN_DELAY <= ops[id]
              /\ ops[id] <= clock + MAX_DELAY
              /\ ops[id] <= queued_at[id].at + MAX_DELAY
              /\ clock >= queued_at[id].at + MAX_DELAY => get_state(id) = "Ready"

\* C30 witness: a record queued with the longest delay, MAX_DELAY seconds
\* later.
C30_Witness ==
    \E id \in Ids :
        /\ has(id) /\ NoOverflow(id)
        /\ queued_at[id].delay = MAX_DELAY
        /\ clock = queued_at[id].at + MAX_DELAY
        /\ get_state(id) = "Ready"

----------------------------------------------------------------------------
\* The errors of the public enum Error (lib.rs:12-23).
Errors == {"InvalidInput", "LimitExceeded", "MathOverflow", "DivisionByZero", "Unauthorized"}

\* C32: neither hello nor guarded_ratio returns Err(MathOverflow), for any
\* u32 arguments: validate_limit lets only 1..10 through to scale_by_two,
\* whose double fits the word.  hello fails only with InvalidInput or
\* LimitExceeded, guarded_ratio only with those, DivisionByZero or
\* Unauthorized.
C32_MathOverflowUnreachable ==
    Returned
      => /\ last.result # Err("MathOverflow")
         /\ last.result.err \subseteq Errors \ {"MathOverflow"}
         /\ last.fn = "hello" => last.result.err \subseteq {"InvalidInput", "LimitExceeded"}
         /\ \A v \in validate_limit(last.numerator).ok : scale_by_two(v).err = {}

\* C32 witness: the administrator's guarded_ratio, and hello, on a value
\* whose double does not fit the word make no MathOverflow.
C32_Witness ==
    /\ Returned
    /\ last.fn = "guarded_ratio" => last.caller = last.adm
    /\ scale_by_two(last.numerator) = Err("Overflow")
    /\ last.numerator = U32_MAX
    /\ last.result = Err("LimitExceeded")

----------------------------------------------------------------------------
(***************************************************************************)
(* The timelock with a ledger that keeps closing.                          *)
(*                                                                         *)
(* The host advances the ledger clock whatever the contract does.  Here    *)
(* the clock is followed for MaxTicks advances and, beyond them, for as    *)
(* long as some record is Pending; weak fairness on the advance says that  *)
(* the ledger does not stop while it can close.  Delays and advances are   *)
(* multiples of MIN_DELAY, so that every scheduled time is a clock value.  *)
(***************************************************************************)

\* Delays offered to queue: below the minimum, the minimum, and twice it.
WaitDelays == {MIN_DELAY - 1, MIN_DELAY, 2 * MIN_DELAY}

\* The ledger closes: the clock moves forward and never wraps.
LedgerCloses(step) ==
    /\ ticks < MaxTicks \/ \E id \in Ids : get_state(id) = "Pending"
    /\ clock + step <= U64_MAX
    /\ clock' = clock + step
    /\ ticks' = IF ticks < MaxTicks THEN ticks + 1 ELSE ticks
    /\ last' = Call("advance", "-", "-", 0, "Ok", "-")
    /\ UNCHANGED <<admin, ops, events, queued_at, hist>>

FairNext ==
    \/ \E a \in Principals : Initialize(a)
    \/ \E c \in Principals, id \in Ids, d \in WaitDelays : Queue(c, id, d)
    \/ \E c \in Principals, id \in Ids : Execute(c, id)
    \/ \E c \in Principals, id \in Ids : Cancel(c, id)
    \/ LedgerCloses(MIN_DELAY)

FairSpec == Init /\ [][FairNext]_vars /\ WF_vars(LedgerCloses(MIN_DELAY))

\* C31: while the ledger keeps closing, every Pending record becomes Ready
\* unless it is cancelled first; in Ready an execute by the administrator
\* succeeds, and the record stays Ready until it is executed or cancelled.
C31_EventuallyReady ==
    /\ \A id \in Ids :
          (get_state(id) = "Pending")
             ~> (get_state(id) = "Ready" \/ hist[id] = "cancelled")
    /\ [](\A id \in Ids : get_state(id) = "Ready"
             => \A c \in admin : execute_result(c, id) = "Ok")
    /\ [][ \A id \in Ids : get_state(id) = "Ready"
             => \/ get_state(id)' = "Ready"
                \/ (Succeeded({"execute", "cancel"}, id))' /\ ~has(id)' ]_vars

\* C31 witness: the ledger closes and a Pending record becomes Ready, with
\* the administrator's execute enabled.
C31_Witness ==
    \E id \in Ids :
        /\ last.fn = "advance"
        /\ StateBefore(id) = "Pending"
        /\ get_state(id) = "Ready"
        /\ \A c \in admin : execute_result(c, id) = "Ok"

====
